---- MODULE Spec2Model ----
(***************************************************************************)
(* Model of the chess rules-and-search engine of rust-engine/src/chess:    *)
(* pseudo-legal move generation (pieces.rs), attack detection, make/undo,  *)
(* the legal move filter with castling, and the minimax search with        *)
(* optional alpha-beta pruning and MVV-LVA ordering (engine.rs).           *)
(*                                                                         *)
(* A board is a function [0..7 -> [0..7 -> -6..6]], row 0 being rank 8.    *)
(* A position is <<rank, file>>, a move is <<from, to>>.  Move lists are   *)
(* sequences in the order the code pushes them.                            *)
(***************************************************************************)
EXTENDS Integers, Sequences, FiniteSets, TLC

\* ------------------------------------------------------------------------
\* pieces.rs: cell encoding
\* ------------------------------------------------------------------------
E == 0
WP == 1
WN == 2
WB == 3
WR == 4
WQ == 5
WK == 6
BP == -1
BN == -2
BB == -3
BR == -4
BQ == -5
BK == -6

White == "White"
Black == "Black"
Color == {White, Black}

Idx == 0..7

abs(x) == IF x < 0 THEN -x ELSE x

get_piece_color(piece) == IF piece > 0 THEN White ELSE Black

\* get_piece_value with the sign of the black queen lost.
get_piece_value_unsigned_queen(piece) ==
    CASE piece = WP -> 1
      [] piece = WN -> 3
      [] piece = WB -> 3
      [] piece = WR -> 5
      [] piece = WQ -> 9
      [] piece = WK -> 200
      [] piece = BP -> -1
      [] piece = BN -> -3
      [] piece = BB -> -3
      [] piece = BR -> -5
      [] piece = BQ -> 9
      [] piece = BK -> -200
      [] OTHER -> 0

get_piece_value(piece) ==
    CASE piece = WP -> 1
      [] piece = WN -> 3
      [] piece = WB -> 3
      [] piece = WR -> 5
      [] piece = WQ -> 9
      [] piece = WK -> 200
      [] piece = BP -> -1
      [] piece = BN -> -3
      [] piece = BB -> -3
      [] piece = BR -> -5
      [] piece = BQ -> -9
      [] piece = BK -> -200
      [] OTHER -> 0

is_on_board(r, f) == r >= 0 /\ r < 8 /\ f >= 0 /\ f < 8

\* Offsets of the knight, in the order of the `moves` array.
KnightOffsets ==
    << <<-2, -1>>, <<-2, 1>>, <<-1, -2>>, <<-1, 2>>,
       <<1, -2>>, <<1, 2>>, <<2, -1>>, <<2, 1>> >>

get_knight_legals(board, color, position) ==
    LET cand == [i \in 1..8 |-> <<position[1] + KnightOffsets[i][1],
                                  position[2] + KnightOffsets[i][2]>>]
        ok(p) == /\ is_on_board(p[1], p[2])
                 /\ \/ board[p[1]][p[2]] = E
                    \/ get_piece_color(board[p[1]][p[2]]) # color
    IN  SelectSeq(cand, ok)

\* get_pawn_legals without the double step from the starting rank.
get_pawn_legals_no_double(board, color, position) ==
    LET rank == position[1]
        file == position[2]
        direction == IF color = White THEN -1 ELSE 1
        r_next == rank + direction
        forward ==
            IF is_on_board(r_next, file) /\ board[r_next][file] = E
            THEN << <<r_next, file>> >>
            ELSE <<>>
        capture(offset) ==
            LET f_cap == file + offset
            IN  IF /\ is_on_board(r_next, f_cap)
                   /\ board[r_next][f_cap] # E
                   /\ get_piece_color(board[r_next][f_cap]) # color
                THEN << <<r_next, f_cap>> >> ELSE <<>>
    IN  forward \o capture(-1) \o capture(1)

get_pawn_legals(board, color, position) ==
    LET rank == position[1]
        file == position[2]
        direction == IF color = White THEN -1 ELSE 1
        r_next == rank + direction
        start_rank == IF color = White THEN 6 ELSE 1
        r_double == rank + 2 * direction
        forward ==
            IF is_on_board(r_next, file) /\ board[r_next][file] = E
            THEN << <<r_next, file>> >> \o
                 (IF /\ rank = start_rank
                     /\ is_on_board(r_double, file)
                     /\ board[r_double][file] = E
                  THEN << <<r_double, file>> >> ELSE <<>>)
            ELSE <<>>
        capture(offset) ==
            LET f_cap == file + offset
            IN  IF /\ is_on_board(r_next, f_cap)
                   /\ board[r_next][f_cap] # E
                   /\ get_piece_color(board[r_next][f_cap]) # color
                THEN << <<r_next, f_cap>> >> ELSE <<>>
    IN  forward \o capture(-1) \o capture(1)

\* One ray of get_sliding_legals: the `while is_on_board(r, f)` loop.
RECURSIVE SlideRay(_, _, _, _, _, _)
SlideRay(board, color, r, f, dr, df) ==
    IF ~is_on_board(r, f) THEN <<>>
    ELSE IF board[r][f] = E
         THEN << <<r, f>> >> \o SlideRay(board, color, r + dr, f + df, dr, df)
         ELSE IF get_piece_color(board[r][f]) # color
              THEN << <<r, f>> >> ELSE <<>>

RECURSIVE SlideDirs(_, _, _, _, _)
SlideDirs(board, color, position, directions, i) ==
    IF i > Len(directions) THEN <<>>
    ELSE SlideRay(board, color, position[1] + directions[i][1],
                  position[2] + directions[i][2],
                  directions[i][1], directions[i][2])
         \o SlideDirs(board, color, position, directions, i + 1)

get_sliding_legals(board, color, position, directions) ==
    SlideDirs(board, color, position, directions, 1)

BishopDirections == << <<-1, -1>>, <<-1, 1>>, <<1, -1>>, <<1, 1>> >>
RookDirections == << <<-1, 0>>, <<1, 0>>, <<0, -1>>, <<0, 1>> >>
QueenDirections ==
    << <<-1, -1>>, <<-1, 1>>, <<1, -1>>, <<1, 1>>,
       <<-1, 0>>, <<1, 0>>, <<0, -1>>, <<0, 1>> >>

get_bishop_legals(board, color, position) ==
    get_sliding_legals(board, color, position, BishopDirections)

get_rook_legals(board, color, position) ==
    get_sliding_legals(board, color, position, RookDirections)

get_queen_legals(board, color, position) ==
    get_sliding_legals(board, color, position, QueenDirections)

KingOffsets ==
    << <<-1, -1>>, <<-1, 0>>, <<-1, 1>>, <<0, -1>>,
       <<0, 1>>, <<1, -1>>, <<1, 0>>, <<1, 1>> >>

get_king_legals(board, color, position) ==
    LET cand == [i \in 1..8 |-> <<position[1] + KingOffsets[i][1],
                                  position[2] + KingOffsets[i][2]>>]
        ok(p) == /\ is_on_board(p[1], p[2])
                 /\ \/ board[p[1]][p[2]] = E
                    \/ get_piece_color(board[p[1]][p[2]]) # color
    IN  SelectSeq(cand, ok)

\* pieces.rs get_legal_moves, imported by engine.rs under this name.
get_pseudo_legal_moves_for_piece(board, color, position) ==
    LET piece_type == abs(board[position[1]][position[2]])
    IN  CASE piece_type = WN -> get_knight_legals(board, color, position)
          [] piece_type = WP -> get_pawn_legals(board, color, position)
          [] piece_type = WB -> get_bishop_legals(board, color, position)
          [] piece_type = WR -> get_rook_legals(board, color, position)
          [] piece_type = WQ -> get_queen_legals(board, color, position)
          [] piece_type = WK -> get_king_legals(board, color, position)
          [] OTHER -> <<>>

\* The moves of the piece on square i (rank-major), paired with their origin.
MovesFrom(board, color, i) ==
    LET rank == i \div 8
        file == i % 8
        piece == board[rank][file]
    IN  IF piece = E \/ get_piece_color(piece) # color THEN <<>>
        ELSE LET legal_moves ==
                     get_pseudo_legal_moves_for_piece(board, color, <<rank, file>>)
             IN  [k \in 1..Len(legal_moves) |-> << <<rank, file>>, legal_moves[k] >>]

RECURSIVE AllFrom(_, _, _)
AllFrom(board, color, i) ==
    IF i = 64 THEN <<>>
    ELSE MovesFrom(board, color, i) \o AllFrom(board, color, i + 1)

\* pieces.rs get_all_legal_moves, imported by engine.rs under this name.
get_all_pseudo_legal_moves(board, color) == AllFrom(board, color, 0)

\* ------------------------------------------------------------------------
\* engine.rs: castling rights, evaluation, move ordering
\* ------------------------------------------------------------------------
CASTLE_WK == 1
CASTLE_WQ == 2
CASTLE_BK == 4
CASTLE_BQ == 8
ALL_CASTLE_RIGHTS == 15

\* (rights & mask) != 0 for a single-bit mask.
HasRight(rights, mask) == (rights \div mask) % 2 = 1

\* rights &= !mask for a single-bit mask.
ClearRight(rights, mask) == IF HasRight(rights, mask) THEN rights - mask ELSE rights

RECURSIVE SumCells(_, _)
SumCells(board, i) ==
    IF i = 64 THEN 0
    ELSE get_piece_value(board[i \div 8][i % 8]) + SumCells(board, i + 1)

evaluate_board(board) == SumCells(board, 0)

get_opponent(color) == IF color = White THEN Black ELSE White

score_move(board, move_) ==
    LET move_piece == board[move_[1][1]][move_[1][2]]
        captured_piece == board[move_[2][1]][move_[2][2]]
    IN  IF captured_piece # E
        THEN 10 * abs(get_piece_value(captured_piece))
             - abs(get_piece_value(move_piece))
        ELSE 0

\* ------------------------------------------------------------------------
\* engine.rs: make_move / undo_move
\* ------------------------------------------------------------------------
\* The `is_castling` test shared by make_move and undo_move.
is_castling(piece, from_f, to_f) ==
    (piece = WK \/ piece = BK) /\ abs(from_f - to_f) = 2

\* UpdateRights that looks at king moves only.
UpdateRights_rooks_ignored(piece, captured, move_, current_rights) ==
    IF piece = WK
    THEN ClearRight(ClearRight(current_rights, CASTLE_WK), CASTLE_WQ)
    ELSE IF piece = BK
         THEN ClearRight(ClearRight(current_rights, CASTLE_BK), CASTLE_BQ)
         ELSE current_rights

\* UpdateRights without the part for a rook captured on its corner.
UpdateRights_no_capture(piece, captured, move_, current_rights) ==
    LET from_r == move_[1][1]
        from_f == move_[1][2]
        r1 == IF piece = WK
              THEN ClearRight(ClearRight(current_rights, CASTLE_WK), CASTLE_WQ)
              ELSE IF piece = BK
                   THEN ClearRight(ClearRight(current_rights, CASTLE_BK), CASTLE_BQ)
                   ELSE current_rights
        r2 == IF piece = WR
              THEN IF from_r = 7 /\ from_f = 0 THEN ClearRight(r1, CASTLE_WQ)
                   ELSE IF from_r = 7 /\ from_f = 7 THEN ClearRight(r1, CASTLE_WK)
                        ELSE r1
              ELSE r1
        r3 == IF piece = BR
              THEN IF from_r = 0 /\ from_f = 0 THEN ClearRight(r2, CASTLE_BQ)
                   ELSE IF from_r = 0 /\ from_f = 7 THEN ClearRight(r2, CASTLE_BK)
                        ELSE r2
              ELSE r2
    IN  r3

\* The rights returned by make_move (the "Update Rights" part).
UpdateRights(piece, captured, move_, current_rights) ==
    LET from_r == move_[1][1]
        from_f == move_[1][2]
        to_r == move_[2][1]
        to_f == move_[2][2]
        r1 == IF piece = WK
              THEN ClearRight(ClearRight(current_rights, CASTLE_WK), CASTLE_WQ)
              ELSE IF piece = BK
                   THEN ClearRight(ClearRight(current_rights, CASTLE_BK), CASTLE_BQ)
                   ELSE current_rights
        r2 == IF piece = WR
              THEN IF from_r = 7 /\ from_f = 0 THEN ClearRight(r1, CASTLE_WQ)
                   ELSE IF from_r = 7 /\ from_f = 7 THEN ClearRight(r1, CASTLE_WK)
                        ELSE r1
              ELSE r1
        r3 == IF piece = BR
              THEN IF from_r = 0 /\ from_f = 0 THEN ClearRight(r2, CASTLE_BQ)
                   ELSE IF from_r = 0 /\ from_f = 7 THEN ClearRight(r2, CASTLE_BK)
                        ELSE r2
              ELSE r2
        r4 == IF captured = WR
              THEN IF to_r = 7 /\ to_f = 0 THEN ClearRight(r3, CASTLE_WQ)
                   ELSE IF to_r = 7 /\ to_f = 7 THEN ClearRight(r3, CASTLE_WK)
                        ELSE r3
              ELSE IF captured = BR
                   THEN IF to_r = 0 /\ to_f = 0 THEN ClearRight(r3, CASTLE_BQ)
                        ELSE IF to_r = 0 /\ to_f = 7 THEN ClearRight(r3, CASTLE_BK)
                             ELSE r3
                   ELSE r3
    IN  r4

\* make_move mutates the board and returns (captured, new_rights); the result
\* here carries the mutated board as well.
make_move(board, move_, current_rights) ==
    LET from_r == move_[1][1]
        from_f == move_[1][2]
        to_r == move_[2][1]
        to_f == move_[2][2]
        piece == board[from_r][from_f]
        captured == board[to_r][to_f]
        b1 == [[board EXCEPT ![to_r][to_f] = piece] EXCEPT ![from_r][from_f] = E]
        b2 == IF is_castling(piece, from_f, to_f)
              THEN IF to_f = 6
                   THEN [[b1 EXCEPT ![from_r][5] = b1[from_r][7]]
                            EXCEPT ![from_r][7] = E]
                   ELSE IF to_f = 2
                        THEN [[b1 EXCEPT ![from_r][3] = b1[from_r][0]]
                                 EXCEPT ![from_r][0] = E]
                        ELSE b1
              ELSE b1
    IN  [board |-> b2, captured |-> captured,
         new_rights |-> UpdateRights(piece, captured, move_, current_rights)]

\* undo_move that leaves the destination empty instead of restoring the
\* captured piece.
undo_move_drops_captured(board, move_, captured) ==
    LET from_r == move_[1][1]
        from_f == move_[1][2]
        to_r == move_[2][1]
        to_f == move_[2][2]
        piece == board[to_r][to_f]
        b1 == [[board EXCEPT ![from_r][from_f] = piece] EXCEPT ![to_r][to_f] = E]
    IN  IF is_castling(piece, from_f, to_f)
        THEN IF to_f = 6
             THEN [[b1 EXCEPT ![from_r][7] = b1[from_r][5]] EXCEPT ![from_r][5] = E]
             ELSE IF to_f = 2
                  THEN [[b1 EXCEPT ![from_r][0] = b1[from_r][3]]
                           EXCEPT ![from_r][3] = E]
                  ELSE b1
        ELSE b1

\* undo_move that puts the rook back without clearing the square it leaves.
undo_move_keeps_rook(board, move_, captured) ==
    LET from_r == move_[1][1]
        from_f == move_[1][2]
        to_r == move_[2][1]
        to_f == move_[2][2]
        piece == board[to_r][to_f]
        b1 == [[board EXCEPT ![from_r][from_f] = piece] EXCEPT ![to_r][to_f] = captured]
    IN  IF is_castling(piece, from_f, to_f)
        THEN IF to_f = 6
             THEN [b1 EXCEPT ![from_r][7] = b1[from_r][5]]
             ELSE IF to_f = 2
                  THEN [b1 EXCEPT ![from_r][0] = b1[from_r][3]]
                  ELSE b1
        ELSE b1

\* undo_move mutates the board; the result is the board afterwards.
undo_move(board, move_, captured) ==
    LET from_r == move_[1][1]
        from_f == move_[1][2]
        to_r == move_[2][1]
        to_f == move_[2][2]
        piece == board[to_r][to_f]
        b1 == [[board EXCEPT ![from_r][from_f] = piece] EXCEPT ![to_r][to_f] = captured]
    IN  IF is_castling(piece, from_f, to_f)
        THEN IF to_f = 6
             THEN [[b1 EXCEPT ![from_r][7] = b1[from_r][5]] EXCEPT ![from_r][5] = E]
             ELSE IF to_f = 2
                  THEN [[b1 EXCEPT ![from_r][0] = b1[from_r][3]]
                           EXCEPT ![from_r][3] = E]
                  ELSE b1
        ELSE b1

\* ------------------------------------------------------------------------
\* engine.rs: attack detection
\* ------------------------------------------------------------------------
SeqContains(s, x) == \E k \in 1..Len(s) : s[k] = x

is_square_attacked(board, position, attacker_color) ==
    \E r \in Idx, f \in Idx :
        /\ board[r][f] # E
        /\ get_piece_color(board[r][f]) = attacker_color
        /\ SeqContains(
               get_pseudo_legal_moves_for_piece(board, attacker_color, <<r, f>>),
               position)

is_in_check(board, color) ==
    LET king_val == IF color = White THEN WK ELSE BK
        kings == {i \in 0..63 : board[i \div 8][i % 8] = king_val}
    IN  IF kings = {} THEN TRUE
        ELSE LET i == CHOOSE k \in kings : \A j \in kings : k <= j
             IN  is_square_attacked(board, <<i \div 8, i % 8>>, get_opponent(color))

\* ------------------------------------------------------------------------
\* engine.rs: get_legal_moves
\* ------------------------------------------------------------------------
\* The "Normal pseudo moves" loop: board_clone is threaded through the
\* make_move / undo_move pair of every candidate.
RECURSIVE FilterLoop(_, _, _, _, _, _)
FilterLoop(board_clone, color, castling_rights, pseudo_moves, i, legal_moves) ==
    IF i > Len(pseudo_moves)
    THEN [legal_moves |-> legal_moves, board_clone |-> board_clone]
    ELSE LET move_ == pseudo_moves[i]
             made == make_move(board_clone, move_, castling_rights)
             keep == ~is_in_check(made.board, color)
             undone == undo_move(made.board, move_, made.captured)
         IN  IF keep
             THEN FilterLoop(undone, color, castling_rights, pseudo_moves, i + 1,
                             Append(legal_moves, move_))
             ELSE FilterLoop(undone, color, castling_rights, pseudo_moves, i + 1,
                             legal_moves)

FilterPseudo(board, color, castling_rights) ==
    FilterLoop(board, color, castling_rights,
               get_all_pseudo_legal_moves(board, color), 1, <<>>)

\* CastleWing testing only the king's destination square for attack.
CastleWing_transit_untested(board, color, rights, rank, mask, empty_sqs, safe_sqs, to_f) ==
    IF /\ HasRight(rights, mask)
       /\ \A k \in 1..Len(empty_sqs) : board[rank][empty_sqs[k]] = E
       /\ ~is_square_attacked(board, <<rank, to_f>>, get_opponent(color))
    THEN << << <<rank, 4>>, <<rank, to_f>> >> >>
    ELSE <<>>

\* One wing of the "Castling Logic" block: squares that must be empty, the two
\* squares tested for attack, and the king's destination file.
CastleWing(board, color, castling_rights, rank, mask, empty_sqs, safe_sqs, to_f) ==
    IF /\ HasRight(castling_rights, mask)
       /\ \A k \in 1..Len(empty_sqs) : board[rank][empty_sqs[k]] = E
       /\ \A k \in 1..Len(safe_sqs) :
              ~is_square_attacked(board, <<rank, safe_sqs[k]>>, get_opponent(color))
    THEN << << <<rank, 4>>, <<rank, to_f>> >> >>
    ELSE <<>>

CastlingMoves(board, color, castling_rights) ==
    IF is_in_check(board, color) THEN <<>>
    ELSE LET rank == IF color = White THEN 7 ELSE 0
             king_mask == IF color = White THEN CASTLE_WK ELSE CASTLE_BK
             queen_mask == IF color = White THEN CASTLE_WQ ELSE CASTLE_BQ
             king_piece == IF color = White THEN WK ELSE BK
         IN  IF board[rank][4] = king_piece
             THEN CastleWing(board, color, castling_rights, rank, king_mask,
                             <<5, 6>>, <<5, 6>>, 6)
                  \o CastleWing(board, color, castling_rights, rank, queen_mask,
                                <<1, 2, 3>>, <<3, 2>>, 2)
             ELSE <<>>

\* One execution of get_legal_moves: the list it returns and the scratch
\* board_clone as the filter loop leaves it.
get_legal_moves_run(board, color, castling_rights) ==
    LET filtered == FilterPseudo(board, color, castling_rights)
    IN  [legal_moves |-> filtered.legal_moves
                         \o CastlingMoves(board, color, castling_rights),
         board_clone |-> filtered.board_clone]

get_legal_moves(board, color, castling_rights) ==
    get_legal_moves_run(board, color, castling_rights).legal_moves

\* ------------------------------------------------------------------------
\* Inputs: boards the callers hand to the engine
\* ------------------------------------------------------------------------
MaxPly == 1

\* A board from its eight rows, row 0 (rank 8) first.
MkBoard(rows) == [r \in Idx |-> [f \in Idx |-> rows[r + 1][f + 1]]]

EmptyRow == <<E, E, E, E, E, E, E, E>>

\* main.rs: the standard starting position.
StartBoard ==
    MkBoard(<< <<BR, BN, BB, BQ, BK, BB, BN, BR>>,
               <<BP, BP, BP, BP, BP, BP, BP, BP>>,
               EmptyRow, EmptyRow, EmptyRow, EmptyRow,
               <<WP, WP, WP, WP, WP, WP, WP, WP>>,
               <<WR, WN, WB, WQ, WK, WB, WN, WR>> >>)

\* Kings and rooks at home, nothing between them.
CastleBoard ==
    MkBoard(<< <<BR, E, E, E, BK, E, E, BR>>,
               EmptyRow, EmptyRow, EmptyRow, EmptyRow, EmptyRow, EmptyRow,
               <<WR, E, E, E, WK, E, E, WR>> >>)

\* As CastleBoard, with the black king's rook on f8, attacking f1.
RookOnFBoard ==
    MkBoard(<< <<BR, E, E, E, BK, BR, E, E>>,
               EmptyRow, EmptyRow, EmptyRow, EmptyRow, EmptyRow, EmptyRow,
               <<WR, E, E, E, WK, E, E, WR>> >>)

\* As CastleBoard, with a black pawn on h2 and a white pawn on a7.
PawnOnH2Board ==
    MkBoard(<< <<BR, E, E, E, BK, E, E, BR>>,
               <<WP, E, E, E, E, E, E, E>>,
               EmptyRow, EmptyRow, EmptyRow, EmptyRow,
               <<E, E, E, E, E, E, E, BP>>,
               <<WR, E, E, E, WK, E, E, WR>> >>)

\* An open position with every piece type and captures for both sides.
MixBoard ==
    MkBoard(<< <<E, E, E, E, BK, E, E, E>>,
               <<E, E, E, BP, E, E, BN, E>>,
               EmptyRow,
               <<E, E, BB, E, WP, E, E, E>>,
               <<E, E, E, BQ, E, WN, E, E>>,
               EmptyRow,
               <<E, E, E, WQ, E, E, WP, E>>,
               <<E, E, E, E, WK, WB, E, E>> >>)

GameInputs ==
    {[board |-> StartBoard, color |-> White, castling_rights |-> ALL_CASTLE_RIGHTS],
     [board |-> CastleBoard, color |-> White, castling_rights |-> ALL_CASTLE_RIGHTS],
     [board |-> CastleBoard, color |-> Black,
      castling_rights |-> CASTLE_WK + CASTLE_BQ],
     [board |-> PawnOnH2Board, color |-> White,
      castling_rights |-> ALL_CASTLE_RIGHTS],
     [board |-> RookOnFBoard, color |-> White,
      castling_rights |-> CASTLE_WK + CASTLE_WQ + CASTLE_BQ],
     [board |-> MixBoard, color |-> Black, castling_rights |-> 0]}

\* ------------------------------------------------------------------------
\* State
\* ------------------------------------------------------------------------
VARIABLES
    board,            \* the caller's board; mutated in place when walking moves
    color,            \* the side to move
    castling_rights,  \* the rights held for the position
    ply,              \* moves played so far
    cands,            \* the move list computed for this position
    idx,              \* the loop position in `cands`
    last,             \* the pending or most recent make_move / undo_move
    pc,               \* where get_best_move stands: "off", "start", "search", "done"
    depth,            \* get_best_move's depth
    use_pruning,
    use_move_ordering,
    board_clone,      \* get_best_move's mutable copy of the board
    stack,            \* the active calls: get_best_move's loop, then minimax calls
    points_w_moves,   \* the (point, move) pairs collected at the root
    result,           \* <<>> for None, <<move>> for Some(move)
    prev              \* << points_w_moves >> of the preceding call, if any

walkVars == <<board, color, castling_rights, ply, cands, idx, last>>
searchVars ==
    <<pc, depth, use_pruning, use_move_ordering, board_clone, stack,
      points_w_moves, result, prev>>
vars == <<walkVars, searchVars>>

NoMove == << <<0, 0>>, <<0, 0>> >>

Idle(b) ==
    [op |-> "none", move |-> NoMove, piece |-> E, captured |-> E, before |-> b,
     new_rights |-> 0, legal |-> FALSE]

SeqToSet(s) == {s[k] : k \in 1..Len(s)}

\* Every move the engine itself hands to make_move at a position, in loop
\* order: the pseudo-legal moves (filter loop of get_legal_moves) and then the
\* castling moves get_legal_moves synthesizes (loop of minimax).  Each is
\* paired with whether get_legal_moves returns it.
Candidates(b, c, rights) ==
    LET legal_moves == SeqToSet(get_legal_moves(b, c, rights))
        all == get_all_pseudo_legal_moves(b, c) \o CastlingMoves(b, c, rights)
    IN  [k \in 1..Len(all) |-> <<all[k], all[k] \in legal_moves>>]

Init ==
    /\ \E in \in GameInputs :
           /\ board = in.board
           /\ color = in.color
           /\ castling_rights = in.castling_rights
           /\ cands = Candidates(in.board, in.color, in.castling_rights)
           /\ last = Idle(in.board)
           /\ board_clone = in.board
    /\ idx = 1
    /\ ply = 0
    /\ pc = "off"
    /\ depth = 0
    /\ use_pruning = FALSE
    /\ use_move_ordering = FALSE
    /\ stack = <<>>
    /\ points_w_moves = <<>>
    /\ result = <<>>
    /\ prev = <<>>

\* make_move on the board, with the next move of the list.
Make ==
    /\ last.op # "make"
    /\ idx <= Len(cands)
    /\ LET move_ == cands[idx][1]
           made == make_move(board, move_, castling_rights)
       IN  /\ board' = made.board
           /\ last' = [op |-> "make", move |-> move_,
                       piece |-> board[move_[1][1]][move_[1][2]],
                       captured |-> made.captured, before |-> board,
                       new_rights |-> made.new_rights, legal |-> cands[idx][2]]
    /\ UNCHANGED <<color, castling_rights, ply, cands, idx, searchVars>>

\* undo_move with the move and the captured piece of the pending make_move;
\* the caller keeps the rights it held before, and the loop moves on.
Undo ==
    /\ last.op = "make"
    /\ board' = undo_move(board, last.move, last.captured)
    /\ last' = [last EXCEPT !.op = "undo"]
    /\ idx' = idx + 1
    /\ UNCHANGED <<color, castling_rights, ply, cands, searchVars>>

\* The line goes on from a legal move (the recursion of minimax, the loop of
\* main.rs): the rights make_move returned are threaded on and the side to
\* move changes.
Commit ==
    /\ last.op = "make"
    /\ last.legal
    /\ ply < MaxPly
    /\ castling_rights' = last.new_rights
    /\ color' = get_opponent(color)
    /\ ply' = ply + 1
    /\ cands' = Candidates(board, get_opponent(color), last.new_rights)
    /\ idx' = 1
    /\ last' = Idle(board)
    /\ UNCHANGED <<board, searchVars>>

Next == Make \/ Undo \/ Commit

Spec == Init /\ [][Next]_vars

\* ------------------------------------------------------------------------
\* Properties of the move executor and the legal move filter (Spec)
\* ------------------------------------------------------------------------
\* The pending make_move applied a move that get_legal_moves returned.
LegalMoveMade == last.op = "make" /\ last.legal

\* C1: no move returned by get_legal_moves, castling moves included, leaves
\* the mover's own king in check once make_move has applied it.
C1_NoSelfCheck == LegalMoveMade => ~is_in_check(board, color)

\* C2: make_move followed by undo_move with the captured piece it returned
\* restores all 64 cells, for every pseudo-legal move and every castling move
\* get_legal_moves produces.
C2_MakeUndoRestores == last.op = "undo" => board = last.before

\* A kingside castling move was made and undone, the rook back in its corner.
C2_Witness ==
    /\ last.op = "undo"
    /\ is_castling(last.piece, last.move[1][2], last.move[2][2])
    /\ last.move[2][2] = 6
    /\ board[last.move[1][1]][7] \in {WR, BR}
    /\ board[last.move[1][1]][5] = E

\* The castling move of `c` towards file to_f is in the list the engine
\* computed for the position.
CastleListed(c, to_f) ==
    LET rank == IF c = White THEN 7 ELSE 0
    IN  /\ board[rank][4] = (IF c = White THEN WK ELSE BK)
        /\ \E k \in 1..Len(cands) :
               cands[k] = << << <<rank, 4>>, <<rank, to_f>> >>, TRUE >>

\* The conditions of the claim for `c` castling towards file to_f.
CastleAllowed(c, to_f) ==
    LET rank == IF c = White THEN 7 ELSE 0
        bit == IF c = White
               THEN (IF to_f = 6 THEN CASTLE_WK ELSE CASTLE_WQ)
               ELSE (IF to_f = 6 THEN CASTLE_BK ELSE CASTLE_BQ)
        between == IF to_f = 6 THEN {5, 6} ELSE {1, 2, 3}
        transit == IF to_f = 6 THEN 5 ELSE 3
    IN  /\ ~is_in_check(board, c)
        /\ board[rank][4] = (IF c = White THEN WK ELSE BK)
        /\ HasRight(castling_rights, bit)
        /\ \A f \in between : board[rank][f] = E
        /\ ~is_square_attacked(board, <<rank, transit>>, get_opponent(c))
        /\ ~is_square_attacked(board, <<rank, to_f>>, get_opponent(c))

\* A black rook's destinations include f1.
BlackRookAttacksF1 ==
    \E r \in Idx, f \in Idx :
        /\ board[r][f] = BR
        /\ SeqContains(get_rook_legals(board, Black, <<r, f>>), <<7, 5>>)

Bits(rights) == {m \in {CASTLE_WK, CASTLE_WQ, CASTLE_BK, CASTLE_BQ} : HasRight(rights, m)}

\* The bits the claim says a move clears.
ClearedBy(piece, captured, move_) ==
    (IF piece = WK THEN {CASTLE_WK, CASTLE_WQ} ELSE {})
    \cup (IF piece = BK THEN {CASTLE_BK, CASTLE_BQ} ELSE {})
    \cup (IF piece = WR /\ move_[1] = <<7, 0>> THEN {CASTLE_WQ} ELSE {})
    \cup (IF piece = WR /\ move_[1] = <<7, 7>> THEN {CASTLE_WK} ELSE {})
    \cup (IF piece = BR /\ move_[1] = <<0, 0>> THEN {CASTLE_BQ} ELSE {})
    \cup (IF piece = BR /\ move_[1] = <<0, 7>> THEN {CASTLE_BK} ELSE {})
    \cup (IF captured = WR /\ move_[2] = <<7, 0>> THEN {CASTLE_WQ} ELSE {})
    \cup (IF captured = WR /\ move_[2] = <<7, 7>> THEN {CASTLE_WK} ELSE {})
    \cup (IF captured = BR /\ move_[2] = <<0, 0>> THEN {CASTLE_BQ} ELSE {})
    \cup (IF captured = BR /\ move_[2] = <<0, 7>> THEN {CASTLE_BK} ELSE {})

\* C6: the rights make_move returns are the rights passed in with exactly the
\* bits of a moving king, of a rook leaving its own corner and of a rook
\* captured on its own corner cleared; no step of a line of play sets a bit.
C6_RightsMonotonic ==
    [][/\ Bits(castling_rights') \subseteq Bits(castling_rights)
       /\ last'.op = "make" =>
              Bits(last'.new_rights) =
                  Bits(castling_rights) \ ClearedBy(last'.piece, last'.captured, last'.move)]_vars

\* A rook leaving a1 captured the rook on a8: one bit of each color is lost.
C6_Witness ==
    /\ last.op = "make"
    /\ last.piece = WR /\ last.move[1] = <<7, 0>>
    /\ last.captured = BR /\ last.move[2] = <<0, 0>>
    /\ Bits(castling_rights) = {CASTLE_WK, CASTLE_WQ, CASTLE_BK, CASTLE_BQ}
    /\ Bits(last.new_rights) = {CASTLE_WK, CASTLE_BK}

\* The pseudo-legal moves of `c` whose moving piece is of the given type.
MovesOfType(b, c, piece_type) ==
    {m \in SeqToSet(get_all_pseudo_legal_moves(b, c)) : abs(b[m[1][1]][m[1][2]]) = piece_type}

\* C8: from the standard starting position White has exactly 20 pseudo-legal
\* moves: a single and a double step for each of the 8 pawns, 4 knight moves,
\* and none for rook, bishop, queen or king.
C8_StartHas20Moves ==
    (board = StartBoard /\ color = White) =>
        /\ Len(get_all_pseudo_legal_moves(board, White)) = 20
        /\ MovesOfType(board, White, WP) =
               {<< <<6, f>>, <<r, f>> >> : f \in Idx, r \in {5, 4}}
        /\ Cardinality(MovesOfType(board, White, WN)) = 4
        /\ \A t \in {WB, WR, WQ, WK} : MovesOfType(board, White, t) = {}

\* The starting position, its 20 moves listed.
C8_Witness ==
    /\ board = StartBoard /\ color = White /\ ply = 0 /\ last.op = "none"
    /\ Len(cands) = 20

\* The number of cells of a board holding a given piece.
Count(b, piece) == Cardinality({sq \in Idx \X Idx : b[sq[1]][sq[2]] = piece})

\* The material balance, counted piece type by piece type.
Material(b) ==
    1 * (Count(b, WP) - Count(b, BP)) + 3 * (Count(b, WN) - Count(b, BN))
    + 3 * (Count(b, WB) - Count(b, BB)) + 5 * (Count(b, WR) - Count(b, BR))
    + 9 * (Count(b, WQ) - Count(b, BQ)) + 200 * (Count(b, WK) - Count(b, BK))

\* C9: evaluate_board is the sum of the signed material values of the 64
\* cells, and 0 on the standard starting position.
C9_EvaluateIsMaterial ==
    last.op # "undo" =>
        /\ evaluate_board(board) = Material(board)
        /\ board = StartBoard => evaluate_board(board) = 0

\* A position with unequal material, after a capture.
C9_Witness ==
    /\ last.op = "make" /\ last.captured # E
    /\ evaluate_board(board) # 0

\* ------------------------------------------------------------------------
\* engine.rs: minimax and get_best_move, one step per make_move / undo_move
\* ------------------------------------------------------------------------
MaxDepth == 3
MaxStack == 6

I32_MAX == 2147483647
I32_MIN == -I32_MAX - 1
ROOT_ALPHA == -50000
ROOT_BETA == 50000
MATE == 10000

is_maximizing(c) == c = White

max(a, b) == IF a >= b THEN a ELSE b
min(a, b) == IF a <= b THEN a ELSE b

\* legal_moves.sort_by(score_b.cmp(&score_a)): a stable sort, descending by
\* score_move on board `b`.
SortMoves(b, moves) ==
    LET n == Len(moves)
        sc == [k \in 1..n |-> score_move(b, moves[k])]
        pos(k) == 1 + Cardinality({j \in 1..n :
                                      sc[j] > sc[k] \/ (sc[j] = sc[k] /\ j < k)})
    IN  [q \in 1..n |-> moves[CHOOSE k \in 1..n : pos(k) = q]]

\* A variant of MateScore that forgets the remaining depth.
MateScore_ignores_depth(c, d) == IF c = White THEN -MATE ELSE MATE

\* The checkmate score of minimax.
MateScore(c, d) == IF c = White THEN -MATE - d ELSE MATE + d

\* A variant of Cutoff with the comparison turned round.
Cutoff_inverted(pruning, alpha, beta) == pruning /\ alpha <= beta

\* `use_pruning && beta <= alpha`
Cutoff(pruning, alpha, beta) == pruning /\ beta <= alpha

\* The record of an active call: its arguments, the board at its entry, the
\* scratch board get_legal_moves left, its move list, loop position and
\* best_point, whether its loop took the break, and, once it has returned
\* without looping (st = "return"), its value.  `move` and `captured` are the
\* caller's, kept for its undo_move.
Frame(b, c, d, alpha, beta, rights, move_, captured) ==
    [color |-> c, depth |-> d, alpha |-> alpha, beta |-> beta,
     castling_rights |-> rights, move |-> move_, captured |-> captured,
     entry |-> b, scratch |-> b, legal_moves |-> <<>>, i |-> 1,
     best_point |-> 0, cut |-> FALSE, st |-> "return", ret |-> 0]

\* minimax past `depth == 0`, given the run of get_legal_moves: sort, the
\* checkmate and stalemate returns, or the start of the loop.
MinimaxInner(f, run, ordering) ==
    IF run.legal_moves = <<>>
    THEN [f EXCEPT !.scratch = run.board_clone,
                   !.ret = IF is_in_check(f.entry, f.color)
                           THEN MateScore(f.color, f.depth) ELSE 0]
    ELSE [f EXCEPT !.scratch = run.board_clone,
                   !.legal_moves = IF ordering
                                   THEN SortMoves(f.entry, run.legal_moves)
                                   ELSE run.legal_moves,
                   !.best_point = IF is_maximizing(f.color) THEN I32_MIN
                                  ELSE I32_MAX,
                   !.st = "loop"]

\* minimax from its entry up to the start of its loop.
MinimaxEntry(b, c, d, alpha, beta, rights, ordering, move_, captured) ==
    IF d = 0
    THEN [Frame(b, c, d, alpha, beta, rights, move_, captured)
             EXCEPT !.ret = evaluate_board(b)]
    ELSE MinimaxInner(Frame(b, c, d, alpha, beta, rights, move_, captured),
                      get_legal_moves_run(b, c, rights), ordering)

\* get_best_move's own loop over `moves`, sorted on demand.
RootLoop(f, moves, scratch, ordering) ==
    [f EXCEPT !.scratch = scratch,
              !.legal_moves = IF ordering THEN SortMoves(f.entry, moves) ELSE moves,
              !.st = "loop"]

RootOf(f, run, ordering) == RootLoop(f, run.legal_moves, run.board_clone, ordering)

\* A variant of RootEntry that loops over the pseudo-legal moves.
RootEntry_pseudo_legal(b, c, d, rights, ordering) ==
    RootLoop(Frame(b, c, d, ROOT_ALPHA, ROOT_BETA, rights, NoMove, E),
             get_all_pseudo_legal_moves(b, c), b, ordering)

\* get_best_move from its entry up to the start of its loop.
RootEntry(b, c, d, rights, ordering) ==
    RootOf(Frame(b, c, d, ROOT_ALPHA, ROOT_BETA, rights, NoMove, E),
           get_legal_moves_run(b, c, rights), ordering)

\* The loop of a call is over: a terminal case, the list exhausted, or a break.
Finished(f) == f.st = "return" \/ f.i > Len(f.legal_moves) \/ f.cut

\* The value a finished minimax call returns.
Returned(f) == IF f.st = "return" THEN f.ret ELSE f.best_point

\* The loop body of minimax after the recursive call returned `point`.
AfterChild(f, point, pruning) ==
    IF is_maximizing(f.color)
    THEN [f EXCEPT !.best_point = max(f.best_point, point),
                   !.alpha = max(f.alpha, point),
                   !.i = f.i + 1,
                   !.cut = Cutoff(pruning, max(f.alpha, point), f.beta)]
    ELSE [f EXCEPT !.best_point = min(f.best_point, point),
                   !.beta = min(f.beta, point),
                   !.i = f.i + 1,
                   !.cut = Cutoff(pruning, f.alpha, min(f.beta, point))]

\* A variant of BestScore that always takes the maximum.
BestScore_always_max(points, maximizing) ==
    LET ps == {points[k][1] : k \in 1..Len(points)}
    IN  CHOOSE x \in ps : \A y \in ps : y <= x

\* best_score and best_moves of get_best_move.
BestScore(points, maximizing) ==
    LET ps == {points[k][1] : k \in 1..Len(points)}
    IN  IF maximizing THEN CHOOSE x \in ps : \A y \in ps : y <= x
        ELSE CHOOSE x \in ps : \A y \in ps : x <= y

BestMoves(points, maximizing) ==
    {points[k][2] : k \in {j \in 1..Len(points) :
                                points[j][1] = BestScore(points, maximizing)}}

\* Positions handed to get_best_move.
\* White: Kg6, Ra7.  Black: Kh8.  Ra8 mates, Rg7 stalemates.
RookEndBoard ==
    MkBoard(<< <<E, E, E, E, E, E, E, BK>>,
               <<WR, E, E, E, E, E, E, E>>,
               <<E, E, E, E, E, E, WK, E>>,
               EmptyRow, EmptyRow, EmptyRow, EmptyRow, EmptyRow >>)

\* RookEndBoard after Ra8: Black is checkmated.
MatedBoard ==
    MkBoard(<< <<WR, E, E, E, E, E, E, BK>>,
               EmptyRow,
               <<E, E, E, E, E, E, WK, E>>,
               EmptyRow, EmptyRow, EmptyRow, EmptyRow, EmptyRow >>)

\* RookEndBoard after Rg7: Black is stalemated.
StalematedBoard ==
    MkBoard(<< <<E, E, E, E, E, E, E, BK>>,
               <<E, E, E, E, E, E, WR, E>>,
               <<E, E, E, E, E, E, WK, E>>,
               EmptyRow, EmptyRow, EmptyRow, EmptyRow, EmptyRow >>)

\* White: Ke1, Rh1, may castle kingside.  Black: Ka8, pawns a7 and h7.
CastleEndBoard ==
    MkBoard(<< <<BK, E, E, E, E, E, E, E>>,
               <<BP, E, E, E, E, E, E, BP>>,
               EmptyRow, EmptyRow, EmptyRow, EmptyRow, EmptyRow,
               <<E, E, E, E, WK, E, E, WR>> >>)

\* White: Kh1, Nf3.  Black: Kg3, which may take the knight.
KnightEndBoard ==
    MkBoard(<< EmptyRow, EmptyRow, EmptyRow, EmptyRow, EmptyRow,
               <<E, E, E, E, E, WN, BK, E>>,
               EmptyRow,
               <<E, E, E, E, E, E, E, WK>> >>)

SearchInputs ==
    {[board |-> RookEndBoard, color |-> White, castling_rights |-> 0],
     [board |-> RookEndBoard, color |-> Black, castling_rights |-> 0],
     [board |-> MatedBoard, color |-> Black, castling_rights |-> 0],
     [board |-> StalematedBoard, color |-> Black, castling_rights |-> 0],
     [board |-> CastleEndBoard, color |-> White, castling_rights |-> CASTLE_WK],
     [board |-> CastleEndBoard, color |-> Black, castling_rights |-> CASTLE_WK],
     [board |-> KnightEndBoard, color |-> Black, castling_rights |-> 0]}

InitSearch ==
    /\ \E in \in SearchInputs :
           /\ board = in.board
           /\ color = in.color
           /\ castling_rights = in.castling_rights
           /\ last = Idle(in.board)
           /\ board_clone = in.board
    /\ ply = 0
    /\ cands = <<>>
    /\ idx = 1
    /\ pc = "start"
    /\ depth \in 0..MaxDepth
    /\ use_pruning = FALSE
    /\ use_move_ordering \in BOOLEAN
    /\ stack = <<>>
    /\ points_w_moves = <<>>
    /\ result = <<>>
    /\ prev = <<>>

Top == stack[Len(stack)]

\* get_best_move up to its loop: clone the board, list and sort the legal
\* moves, return None if there are none.
Start ==
    /\ pc = "start"
    /\ board_clone' = board
    /\ \E root \in {RootEntry(board, color, depth, castling_rights, use_move_ordering)} :
           IF root.legal_moves = <<>>
           THEN /\ pc' = "done"
                /\ stack' = <<>>
           ELSE /\ pc' = "search"
                /\ stack' = <<root>>
    /\ points_w_moves' = <<>>
    /\ result' = <<>>
    /\ UNCHANGED <<walkVars, depth, use_pruning, use_move_ordering, prev>>

\* The next move of the innermost loop: make_move, then the recursive call of
\* minimax for the opponent with depth - 1 and the move's rights.
Call ==
    /\ pc = "search"
    /\ ~Finished(Top)
    /\ Len(stack) < MaxStack
    /\ \E made \in {make_move(board_clone, Top.legal_moves[Top.i], Top.castling_rights)} :
           /\ board_clone' = made.board
           /\ \E child \in {MinimaxEntry(made.board, get_opponent(Top.color),
                                        Top.depth - 1, Top.alpha, Top.beta,
                                        made.new_rights, use_move_ordering,
                                        Top.legal_moves[Top.i], made.captured)} :
                  stack' = Append(stack, child)
    /\ UNCHANGED <<walkVars, pc, depth, use_pruning, use_move_ordering,
                   points_w_moves, result, prev>>

\* The innermost minimax call returns: the caller undoes its move and, in
\* minimax, updates best_point, alpha or beta and tests for the break; in
\* get_best_move, records the (point, move) pair.
Return ==
    /\ pc = "search"
    /\ Len(stack) >= 2
    /\ Finished(Top)
    /\ board_clone' = undo_move(board_clone, Top.move, Top.captured)
    /\ LET caller == stack[Len(stack) - 1]
           point == Returned(Top)
       IN  IF Len(stack) = 2
           THEN /\ points_w_moves' = Append(points_w_moves, <<point, Top.move>>)
                /\ stack' = << [caller EXCEPT !.i = caller.i + 1] >>
           ELSE /\ points_w_moves' = points_w_moves
                /\ stack' = SubSeq(stack, 1, Len(stack) - 2)
                             \o << AfterChild(caller, point, use_pruning) >>
    /\ UNCHANGED <<walkVars, pc, depth, use_pruning, use_move_ordering, result, prev>>

\* The end of get_best_move: one of the moves with the best score, at random.
Choose ==
    /\ pc = "search"
    /\ Len(stack) = 1
    /\ Finished(Top)
    /\ IF points_w_moves = <<>>
       THEN result' = <<>>
       ELSE \E m \in BestMoves(points_w_moves, is_maximizing(color)) : result' = <<m>>
    /\ pc' = "done"
    /\ stack' = <<>>
    /\ UNCHANGED <<walkVars, depth, use_pruning, use_move_ordering, board_clone,
                   points_w_moves, prev>>

\* The caller asks again for the same position, now with pruning enabled.
CallAgain ==
    /\ pc = "done"
    /\ ~use_pruning
    /\ use_pruning' = TRUE
    /\ prev' = << points_w_moves >>
    /\ pc' = "start"
    /\ points_w_moves' = <<>>
    /\ result' = <<>>
    /\ UNCHANGED <<walkVars, depth, use_move_ordering, board_clone, stack>>

NextSearch == Start \/ Call \/ Return \/ Choose \/ CallAgain

SpecSearch == InitSearch /\ [][NextSearch]_vars

\* ------------------------------------------------------------------------
\* Properties of the search (SpecSearch)
\* ------------------------------------------------------------------------
IsPrefix(s, t) == Len(s) <= Len(t) /\ SubSeq(t, 1, Len(s)) = s

\* C3: for a fixed (board, color, depth >= 1, rights), the run with pruning
\* gives every root move the score the run without pruning gave it: while the
\* pruned run is under way its (score, move) list is a prefix of the unpruned
\* list, at its end the two lists are equal, so the tied-best root moves are
\* the same set and the chosen move is one of them.
C3_PruningSameRootScores ==
    (use_pruning /\ depth >= 1 /\ pc \in {"search", "done"}) =>
        /\ IsPrefix(points_w_moves, prev[1])
        /\ pc = "done" =>
              /\ points_w_moves = prev[1]
              /\ BestMoves(points_w_moves, is_maximizing(color))
                    = BestMoves(prev[1], is_maximizing(color))
              /\ result # <<>> =>
                    result[1] \in BestMoves(prev[1], is_maximizing(color))

C3_Witness ==
    /\ pc = "done"
    /\ use_pruning
    /\ depth = MaxDepth
    /\ points_w_moves = prev[1]
    /\ \E j, k \in 1..Len(points_w_moves) :
           points_w_moves[j][1] # points_w_moves[k][1]

\* C4: get_best_move returns None exactly when get_legal_moves is empty for
\* the position, and a move it returns is one of get_legal_moves' moves,
\* whatever the pruning and ordering flags.
C4_BestMoveIsLegal ==
    pc = "done" =>
        LET legal_moves == get_legal_moves(board, color, castling_rights)
        IN  /\ result = <<>> <=> legal_moves = <<>>
            /\ result # <<>> => result[1] \in SeqToSet(legal_moves)

C4_Witness ==
    /\ pc = "done"
    /\ result # <<>>
    /\ use_pruning
    /\ use_move_ordering
    /\ Cardinality(BestMoves(points_w_moves, is_maximizing(color))) >= 2

\* C7: make_move and undo_move are paired in LIFO order: the board a call
\* works on equals the board at its entry whenever it is the innermost call
\* (so on return, also after a cutoff break, the caller finds its board
\* restored), every step that leaves a call undoes the move that entered it,
\* the scratch board of get_legal_moves ends equal to its input, and
\* get_best_move's clone equals the caller's board after each root move and
\* at the end.
C7_MakeUndoNested ==
    [][/\ pc' = "search" =>
             /\ board_clone' = stack'[Len(stack')].entry
             /\ \A k \in 1..Len(stack') : stack'[k].scratch = stack'[k].entry
             /\ stack'[1].entry = board
             /\ Len(stack') = 1 => board_clone' = board
       /\ pc' = "done" => board_clone' = board
       /\ (pc = "search" /\ pc' = "search" /\ Len(stack') < Len(stack)) =>
             /\ Len(stack') = Len(stack) - 1
             /\ board_clone' = undo_move(board_clone, Top.move, Top.captured)
             /\ board_clone' = stack[Len(stack) - 1].entry
       /\ (pc = "search" /\ pc' = "search" /\ Len(stack') > Len(stack)) =>
             /\ Len(stack') = Len(stack) + 1
             /\ SubSeq(stack', 1, Len(stack)) = stack
             /\ stack'[Len(stack')].move = Top.legal_moves[Top.i]]_vars

C7_Witness ==
    /\ pc = "search"
    /\ use_pruning
    /\ Len(stack) >= 3
    /\ Top.cut
    /\ Top.i <= Len(Top.legal_moves)
    /\ board_clone = Top.entry

\* C10: minimax decides its terminal cases in this order: depth = 0 returns
\* evaluate_board even if the side to move has no legal move; otherwise no
\* legal move and in check returns -(10000 + depth) for White and
\* 10000 + depth for Black; otherwise no legal move returns 0; and for the
\* same mated side a larger depth gives a strictly more extreme score.
C10_TerminalCases ==
    /\ (pc = "search" /\ Len(stack) >= 2) =>
          /\ Top.depth = 0 =>
                Top.st = "return" /\ Top.ret = evaluate_board(Top.entry)
          /\ (Top.depth # 0 /\ Top.st = "return") =>
                /\ get_legal_moves(Top.entry, Top.color, Top.castling_rights) = <<>>
                /\ Top.ret = IF is_in_check(Top.entry, Top.color)
                             THEN IF Top.color = White
                                  THEN -(10000 + Top.depth)
                                  ELSE 10000 + Top.depth
                             ELSE 0
          /\ Top.st = "loop" => Top.depth # 0 /\ Top.legal_moves # <<>>
    /\ \A d1, d2 \in 1..(MaxDepth + 1) :
          d1 < d2 => /\ MateScore(White, d2) < MateScore(White, d1)
                     /\ MateScore(Black, d2) > MateScore(Black, d1)

C10_Witness ==
    /\ pc = "search"
    /\ Len(stack) >= 2
    /\ Top.depth = 0
    /\ Top.ret = evaluate_board(Top.entry)
    /\ Top.ret # 0
    /\ is_in_check(Top.entry, Top.color)
    /\ get_legal_moves(Top.entry, Top.color, Top.castling_rights) = <<>>

\* ------------------------------------------------------------------------
\* Further properties
\* ------------------------------------------------------------------------
\* The scores collected at the root, and whether score x is the optimum for
\* side c among them.
RootScores == {points_w_moves[k][1] : k \in 1..Len(points_w_moves)}

Optimal(x, c) ==
    IF c = White THEN \A y \in RootScores : y <= x
    ELSE \A y \in RootScores : x <= y

\* C11: when get_best_move returns a move, the score collected for that move
\* is the maximum (White) or minimum (Black) of the scores collected for the
\* root moves, so no strictly worse move is returned; and when the choice is
\* about to be made, every root move with exactly that score can be the
\* one returned.
C11_ReturnsOptimalMove ==
    /\ (pc = "done" /\ result # <<>>) =>
          \E k \in 1..Len(points_w_moves) :
              /\ points_w_moves[k][2] = result[1]
              /\ Optimal(points_w_moves[k][1], color)
    /\ (pc = "search" /\ Len(stack) = 1 /\ Finished(Top)) =>
          \A k \in 1..Len(points_w_moves) :
              Optimal(points_w_moves[k][1], color) =>
                  ENABLED (Choose /\ result' = << points_w_moves[k][2] >>)

C11_Witness ==
    /\ pc = "done"
    /\ result # <<>>
    /\ color = Black
    /\ depth >= 2
    /\ \E j, k \in 1..Len(points_w_moves) :
           /\ points_w_moves[j][2] = result[1]
           /\ points_w_moves[j][1] < points_w_moves[k][1]

\* Whether the rights `rights` agree with board b: for every bit set, the
\* king of that colour on file e of its home rank and a rook of that colour
\* on the matching corner.
RightsConsistent(b, rights) ==
    /\ HasRight(rights, CASTLE_WK) => b[7][4] = WK /\ b[7][7] = WR
    /\ HasRight(rights, CASTLE_WQ) => b[7][4] = WK /\ b[7][0] = WR
    /\ HasRight(rights, CASTLE_BK) => b[0][4] = BK /\ b[0][7] = BR
    /\ HasRight(rights, CASTLE_BQ) => b[0][4] = BK /\ b[0][0] = BR

\* C12: along lines of moves returned by get_legal_moves, with the rights
\* make_move returns threaded on, a rights bit that is set has the king of
\* that colour on its origin square and a rook of that colour on the matching
\* corner; so a castling move get_legal_moves returns moves a rook of the
\* mover's colour from the corner to the square next to the king.
C12_RightsMatchBoard ==
    /\ last.op = "none" => RightsConsistent(board, castling_rights)
    /\ LegalMoveMade =>
          /\ RightsConsistent(last.before, castling_rights)
          /\ RightsConsistent(board, last.new_rights)
          /\ is_castling(last.piece, last.move[1][2], last.move[2][2]) =>
                LET rank == last.move[1][1]
                    rook == IF color = White THEN WR ELSE BR
                    corner == IF last.move[2][2] = 6 THEN 7 ELSE 0
                    beside == IF last.move[2][2] = 6 THEN 5 ELSE 3
                IN  /\ last.before[rank][corner] = rook
                    /\ board[rank][beside] = rook
                    /\ board[rank][corner] = E

C12_Witness ==
    /\ LegalMoveMade
    /\ ply = 1
    /\ is_castling(last.piece, last.move[1][2], last.move[2][2])
    /\ Bits(castling_rights) # Bits(ALL_CASTLE_RIGHTS)
    /\ board[last.move[1][1]][IF last.move[2][2] = 6 THEN 5 ELSE 3]
          = (IF color = White THEN WR ELSE BR)

\* C13: a search started by get_best_move with depth >= 0 comes to an end:
\* every minimax call has a depth one less than its caller's, and none is
\* made with a negative depth.
C13_DepthNeverNegative ==
    (pc = "search" /\ depth >= 0) =>
        \A k \in 2..Len(stack) :
            /\ stack[k].depth = stack[k - 1].depth - 1
            /\ stack[k].depth >= 0

====
